---------------------------- MODULE Spec2Model ----------------------------
(***************************************************************************)
(* Model of the ADXL345 accelerometer driver of                            *)
(* src/lib/python3/odcsensor/movement.py (classes Adxl345, Adxl345Spi).    *)
(*                                                                         *)
(* Representation choices:                                                 *)
(*  - A Python argument that may or may not be an int is a record          *)
(*    [isint |-> BOOLEAN, val |-> Int]; isint = FALSE stands for the       *)
(*    float float(val) (2.0, 17.0, ...).                                   *)
(*  - An acceleration (a Python float) is the integer number of 2^-13 g    *)
(*    it holds: every value decode produces is raw * 2^(c+2) / 2^13 with   *)
(*    raw a 16 bit count, which a double holds exactly.                    *)
(*  - A margin is given in thousandths of a g.                             *)
(*  - The pigpio transport is the environment: the answer of every         *)
(*    spi_xfer is an input of the action that performs it.                 *)
(***************************************************************************)
EXTENDS Integers, Sequences, FiniteSets, TLC

-----------------------------------------------------------------------------
(* Bounds of the model *)

\* largest byte count of a caller's own from_address / to_address call
MaxCount == 3
\* SPI handles the pigpio daemon may hold open at once
MaxHandles == 2

-----------------------------------------------------------------------------
(* Register addresses and bit masks *)

ADDR_RATE_BW == 44
ADDR_DATA_FORMAT == 49
ADDR_DATA_X_0 == 50
ADDR_OFFSET_X == 30
ADDR_OFFSET_Y == 31
ADDR_OFFSET_Z == 32
ADDR_POWER_CTL == 45
BITMASK_READ == 128
BITMASK_MULTI == 64

\* value of an attribute that has not been assigned yet
Unset == -99

-----------------------------------------------------------------------------
(* Python's integer operators *)

RECURSIVE BitAnd(_, _)
\* a & b, for a, b >= 0
BitAnd(a, b) ==
    IF a = 0 \/ b = 0 THEN 0
    ELSE (a % 2) * (b % 2) + 2 * BitAnd(a \div 2, b \div 2)

RECURSIVE BitOr(_, _)
\* a | b, for a, b >= 0
BitOr(a, b) ==
    IF a = 0 THEN b
    ELSE IF b = 0 THEN a
    ELSE (IF a % 2 = 1 \/ b % 2 = 1 THEN 1 ELSE 0) + 2 * BitOr(a \div 2, b \div 2)

RECURSIVE BitAndNot(_, _)
\* a & ~m, for a, m >= 0
BitAndNot(a, m) ==
    IF a = 0 THEN 0
    ELSE (IF a % 2 = 1 /\ m % 2 = 0 THEN 1 ELSE 0) + 2 * BitAndNot(a \div 2, m \div 2)

RECURSIVE BitXor(_, _)
\* a ^ b, for a, b >= 0
BitXor(a, b) ==
    IF a = 0 THEN b
    ELSE IF b = 0 THEN a
    ELSE (IF a % 2 = b % 2 THEN 0 ELSE 1) + 2 * BitXor(a \div 2, b \div 2)

\* a << k
ShiftLeft(a, k) == a * 2^k

\* True is 1 and False is 0 in arithmetic
BoolInt(b) == IF b THEN 1 ELSE 0

RECURSIVE IntLog2(_)
\* int(log2(n)), for n >= 1
IntLog2(n) == IF n <= 1 THEN 0 ELSE 1 + IntLog2(n \div 2)

\* fabs(v)
Fabs(v) == IF v < 0 THEN -v ELSE v

\* round(v) of the float v8192 / 2^13: to the nearest integer, a tie to the even one
Round(v8192) ==
    LET fl == v8192 \div 8192
        rem == v8192 % 8192
    IN  IF rem < 4096 THEN fl
        ELSE IF rem > 4096 THEN fl + 1
        ELSE IF fl % 2 = 0 THEN fl ELSE fl + 1

\* a ^ b for Python's unbounded two's complement integers with |a|, |b| < 2^15:
\* the 16 low bits decide, the bits above repeat bit 15
PyXor(a, b) ==
    LET u == BitXor(a % 65536, b % 65536)
    IN  IF u >= 32768 THEN u - 65536 ELSE u

-----------------------------------------------------------------------------
(* Adxl345Spi: framing of the bus transactions *)

\* the outcome of a call: the exception it raised ("ok": none), the method that
\* raised it, the value returned and the transfers handed to the transport
Outcome(status, by, value, xfers) ==
    [status |-> status, by |-> by, value |-> value, xfers |-> xfers]

\* one spi_xfer: whether it is a read, the address and byte count it was asked
\* for, and the frame handed to the transport
Xfer(kind, addr, n, msg) ==
    [kind |-> kind, addr |-> addr, n |-> n, msg |-> msg]

\* from_address returning data[:-1], the echoed first byte kept and the last
\* payload byte dropped
from_address_drop_last(addr, byte_count, resp) ==
    LET bit_msg ==
            <<BitOr(BitOr(addr, BITMASK_READ),
                    BITMASK_MULTI * BoolInt(byte_count > 1))>>
            \o [i \in 1..byte_count |-> 255]
        xfer == Xfer("read", addr, byte_count, bit_msg)
    IN  IF resp.count # byte_count + 1 \/ Len(resp.data) # resp.count
        THEN Outcome("ValueError", "from_address", <<>>, <<xfer>>)
        ELSE Outcome("ok", "", SubSeq(resp.data, 1, Len(resp.data) - 1), <<xfer>>)

\* from_address(addr, byte_count), the transport answering resp = (count, data)
from_address(addr, byte_count, resp) ==
    LET bit_msg ==
            <<BitOr(BitOr(addr, BITMASK_READ),
                    BITMASK_MULTI * BoolInt(byte_count > 1))>>
            \o [i \in 1..byte_count |-> 255]
        xfer == Xfer("read", addr, byte_count, bit_msg)
    IN  IF resp.count # byte_count + 1 \/ Len(resp.data) # resp.count
        THEN Outcome("ValueError", "from_address", <<>>, <<xfer>>)
        ELSE Outcome("ok", "", SubSeq(resp.data, 2, Len(resp.data)), <<xfer>>)

\* to_address(addr, values); is_list: isinstance(values, list)
to_address(addr, values, is_list) ==
    LET data_values == IF is_list THEN values ELSE <<values>>
        bit_msg ==
            <<BitOr(addr, BITMASK_MULTI * BoolInt(Len(data_values) > 1))>>
            \o data_values
    IN  Outcome("ok", "", <<>>,
                <<Xfer("write", addr, Len(data_values), bit_msg)>>)

-----------------------------------------------------------------------------
(* Adxl345: configuration, decoding, calibration *)

\* decode testing bit 16, which a 16 bit count never has, for the sign
decode_bit16(lsb, msb, sr) ==
    LET accl == BitOr(ShiftLeft(msb, 8), lsb)
        adjust == 2 * (2^(sr + 1))
    IN  IF BitAnd(accl, ShiftLeft(1, 16)) # 0
        THEN (accl - ShiftLeft(1, 16)) * adjust
        ELSE accl * adjust

\* decode(lsb, msb) with self.sensitivity_range = sr, in units of 2^-13 g
decode(lsb, msb, sr) ==
    LET accl == BitOr(ShiftLeft(msb, 8), lsb)
        adjust == 2 * (2^(sr + 1))
    IN  IF BitAnd(accl, ShiftLeft(1, 15)) # 0
        THEN (accl - ShiftLeft(1, 16)) * adjust
        ELSE accl * adjust

\* set_sensitivity_range accepting every integer from 2 to 16
set_sensitivity_range_loose(sr, v, resp) ==
    IF ~v.isint
    THEN [out |-> Outcome("TypeError", "set_sensitivity_range", <<>>, <<>>),
          sr |-> sr]
    ELSE IF v.val < 2 \/ v.val > 16
    THEN [out |-> Outcome("ValueError", "set_sensitivity_range", <<>>, <<>>),
          sr |-> sr]
    ELSE
        LET code == IntLog2(v.val) - 1
            rd == from_address(ADDR_DATA_FORMAT, 1, resp)
        IN  IF rd.status # "ok"
            THEN [out |-> rd, sr |-> code]
            ELSE
                LET data == BitOr(BitOr(BitAndNot(rd.value[1], 15), code), 8)
                    wr == to_address(ADDR_DATA_FORMAT, data, FALSE)
                IN  [out |-> Outcome("ok", "", <<>>, rd.xfers \o wr.xfers),
                     sr |-> code]

\* set_sensitivity_range that does not clear the low nibble it read
set_sensitivity_range_keep_nibble(sr, v, resp) ==
    IF ~v.isint
    THEN [out |-> Outcome("TypeError", "set_sensitivity_range", <<>>, <<>>),
          sr |-> sr]
    ELSE IF v.val \notin {2, 4, 8, 16}
    THEN [out |-> Outcome("ValueError", "set_sensitivity_range", <<>>, <<>>),
          sr |-> sr]
    ELSE
        LET code == IntLog2(v.val) - 1
            rd == from_address(ADDR_DATA_FORMAT, 1, resp)
        IN  IF rd.status # "ok"
            THEN [out |-> rd, sr |-> code]
            ELSE
                LET data == BitOr(BitOr(rd.value[1], code), 8)
                    wr == to_address(ADDR_DATA_FORMAT, data, FALSE)
                IN  [out |-> Outcome("ok", "", <<>>, rd.xfers \o wr.xfers),
                     sr |-> code]

\* set_sensitivity_range(v): the outcome and the new self.sensitivity_range
set_sensitivity_range(sr, v, resp) ==
    IF ~v.isint
    THEN [out |-> Outcome("TypeError", "set_sensitivity_range", <<>>, <<>>),
          sr |-> sr]
    ELSE IF v.val \notin {2, 4, 8, 16}
    THEN [out |-> Outcome("ValueError", "set_sensitivity_range", <<>>, <<>>),
          sr |-> sr]
    ELSE
        LET code == IntLog2(v.val) - 1
            rd == from_address(ADDR_DATA_FORMAT, 1, resp)
        IN  IF rd.status # "ok"
            THEN [out |-> rd, sr |-> code]
            ELSE
                LET data == BitOr(BitOr(BitAndNot(rd.value[1], 15), code), 8)
                    wr == to_address(ADDR_DATA_FORMAT, data, FALSE)
                IN  [out |-> Outcome("ok", "", <<>>, rd.xfers \o wr.xfers),
                     sr |-> code]

\* set_data_rate_level(level): the outcome and the new self.data_rate_code and
\* self.data_rate
set_data_rate_level(code, rate, level) ==
    IF ~level.isint
    THEN [out |-> Outcome("TypeError", "set_data_rate_level", <<>>, <<>>),
          code |-> code, rate |-> rate]
    ELSE IF level.val < 0 \/ level.val > 16
    THEN [out |-> Outcome("ValueError", "set_data_rate_level", <<>>, <<>>),
          code |-> code, rate |-> rate]
    ELSE
        LET data_rate_code_ == 15 - level.val
            data_rate_ == 3200 \div (2^level.val)
            wr == to_address(ADDR_RATE_BW, data_rate_code_, FALSE)
        IN  [out |-> wr, code |-> data_rate_code_, rate |-> data_rate_]

\* set_offset(x, y, z): the first pass of the loop evaluates
\* Adxl345.FACTOR_HIGH_RES, an attribute no class defines, before to_address
\* is called
set_offset(x, y, z) ==
    Outcome("AttributeError", "set_offset", <<>>, <<>>)

\* get_acceleration testing the mask against the axis index, not against its bit
get_acceleration_index_mask(axis, sr, resp) ==
    LET byte_ctr == 6
        rd == from_address(ADDR_DATA_X_0, byte_ctr, resp)
        data == rd.value
        elem(idx) ==
            IF BitAnd(axis, idx \div 2) # 0
            THEN <<decode(data[idx + 1], data[idx + 2], sr)>>
            ELSE <<>>
    IN  IF rd.status # "ok"
        THEN rd
        ELSE Outcome("ok", "", elem(0) \o elem(2) \o elem(4), rd.xfers)

\* get_acceleration(axis) with self.sensitivity_range = sr
get_acceleration(axis, sr, resp) ==
    LET byte_ctr == 6
        rd == from_address(ADDR_DATA_X_0, byte_ctr, resp)
        data == rd.value
        elem(idx) ==
            IF BitAnd(axis, ShiftLeft(1, idx \div 2)) # 0
            THEN <<decode(data[idx + 1], data[idx + 2], sr)>>
            ELSE <<>>
    IN  IF rd.status # "ok"
        THEN rd
        ELSE Outcome("ok", "", elem(0) \o elem(2) \o elem(4), rd.xfers)

\* the margin test of calibrate for one axis value
near_zero_or_one(v, margin) ==
    \/ /\ (0 - margin) * 8192 < Fabs(v) * 1000
       /\ Fabs(v) * 1000 < (0 + margin) * 8192
    \/ /\ (1000 - margin) * 8192 < Fabs(v) * 1000
       /\ Fabs(v) * 1000 < (1000 + margin) * 8192

\* the exclusivity test of calibrate: round(x) ^ round(y) ^ round(z)
one_axis_test(x, y, z) ==
    PyXor(PyXor(Round(x), Round(y)), Round(z)) # 0

\* calibrate(margin) with self.sensitivity_range = sr
calibrate(margin, sr, resp) ==
    LET zero == set_offset(0, 0, 0)
        accel == get_acceleration(7, sr, resp)
        x == accel.value[1]
        y == accel.value[2]
        z == accel.value[3]
        calibration == <<Round(x) * 8192 - x, Round(y) * 8192 - y,
                         Round(z) * 8192 - z>>
        wr == set_offset(calibration[1], calibration[2], calibration[3])
    IN  IF zero.status # "ok" THEN zero
        ELSE IF accel.status # "ok"
        THEN Outcome(accel.status, accel.by, <<>>, zero.xfers \o accel.xfers)
        ELSE IF ~(\A v \in {x, y, z} : near_zero_or_one(v, margin))
        THEN Outcome("ValueError", "calibrate", <<>>, zero.xfers \o accel.xfers)
        ELSE IF ~one_axis_test(x, y, z)
        THEN Outcome("ValueError", "calibrate", <<>>, zero.xfers \o accel.xfers)
        ELSE Outcome(wr.status, wr.by, <<>>,
                     zero.xfers \o accel.xfers \o wr.xfers)

-----------------------------------------------------------------------------
(* State *)

VARIABLES
    obj,                \* "none", "ready", "failed" (__init__ raised), "stopped"
    pi_connections,     \* pigpio.pi() connections not yet stopped
    open_handles,       \* spi_open handles not yet closed
    sensitivity_range,  \* self.sensitivity_range
    data_rate_code,     \* self.data_rate_code
    data_rate,          \* self.data_rate
    call,               \* the last call made: its name and arguments, and the
                        \* answer the transport gave to its read
    result              \* its Outcome

vars == <<obj, pi_connections, open_handles, sensitivity_range, data_rate_code,
          data_rate, call, result>>

config == <<sensitivity_range, data_rate_code, data_rate>>
resources == <<obj, pi_connections, open_handles>>

-----------------------------------------------------------------------------
(* Inputs *)

Int_(k) == [isint |-> TRUE, val |-> k]
Float_(k) == [isint |-> FALSE, val |-> k]

\* l bytes s+1, s+2, ... (mod 256)
Ramp(s, l) == [i \in 1..l |-> (s + i) % 256]

\* the transport's answer to a read that went well: one echoed byte, the payload
GoodResp(payload) == [count |-> Len(payload) + 1, data |-> <<0>> \o payload]

\* answers to a read of n bytes, right and wrong in count and in length
Responses(n) ==
    {[count |-> c, data |-> Ramp(16, l)] :
        c \in {-1, n, n + 1, n + 2}, l \in {n, n + 1, n + 2}}

\* addresses a caller passes to from_address / to_address
AddrInputs == {0, ADDR_DATA_X_0, 64, 128}

RangeInputs == {Int_(k) : k \in {1, 2, 3, 4, 5, 8, 16}} \cup {Float_(2), Float_(3)}
FewRanges == {Int_(2), Int_(16), Int_(3), Float_(2)}
LevelInputs == {Int_(k) : k \in -1..17} \cup {Float_(0), Float_(17)}

\* DATA_FORMAT bytes the device answers with
FormatBytes == {0, 11, 244, 255}
AllBytes == 0..255
FormatResponses(bytes) ==
    {GoodResp(<<b>>) : b \in bytes}
    \cup {[count |-> 1, data |-> <<0>>], [count |-> 2, data |-> <<0>>]}
FewFormatResponses == FormatResponses(FormatBytes)
AllFormatResponses == FormatResponses(AllBytes)

\* raw (low, high) pairs of one axis: 5, -3 and 253 counts
AxisPairs == {<<5, 0>>, <<253, 255>>, <<253, 0>>}
Samples == {x \o y \o z : x \in AxisPairs, y \in AxisPairs, z \in AxisPairs}
AccelResponses ==
    {GoodResp(smp) : smp \in Samples}
    \cup {[count |-> 5, data |-> Ramp(0, 5)], [count |-> 7, data |-> Ramp(0, 6)]}
AxisMasks == 0..7
Margins == {100}

-----------------------------------------------------------------------------
(* Operations *)

Init ==
    /\ obj = "none"
    /\ pi_connections = 0
    /\ open_handles = 0
    /\ sensitivity_range = Unset
    /\ data_rate_code = Unset
    /\ data_rate = Unset
    /\ call = [name |-> "none"]
    /\ result = Outcome("ok", "", <<>>, <<>>)

\* Adxl345Spi(): pigpio.pi(), spi_open, then Adxl345.__init__ with its defaults
Construct(resp) ==
    /\ obj # "ready"
    /\ open_handles < MaxHandles
    /\ pi_connections' = pi_connections + 1
    /\ open_handles' = open_handles + 1
    /\ call' = [name |-> "__init__", resp |-> resp]
    /\ LET s == set_sensitivity_range(Unset, Int_(16), resp)
           d == set_data_rate_level(Unset, Unset, Int_(0))
       IN  IF s.out.status # "ok"
           THEN /\ obj' = "failed"
                /\ sensitivity_range' = s.sr
                /\ data_rate_code' = Unset
                /\ data_rate' = Unset
                /\ result' = s.out
           ELSE /\ obj' = IF d.out.status = "ok" THEN "ready" ELSE "failed"
                /\ sensitivity_range' = s.sr
                /\ data_rate_code' = d.code
                /\ data_rate' = d.rate
                /\ result' = Outcome(d.out.status, d.out.by, <<>>,
                                     s.out.xfers \o d.out.xfers)

\* stop()
Stop ==
    /\ obj = "ready"
    /\ obj' = "stopped"
    /\ open_handles' = open_handles - 1
    /\ pi_connections' = pi_connections - 1
    /\ call' = [name |-> "stop"]
    /\ result' = Outcome("ok", "", <<>>, <<>>)
    /\ UNCHANGED config

SetSensitivityRange(v, resp) ==
    /\ obj = "ready"
    /\ call' = [name |-> "set_sensitivity_range", v |-> v, resp |-> resp]
    /\ LET s == set_sensitivity_range(sensitivity_range, v, resp)
       IN  /\ sensitivity_range' = s.sr
           /\ result' = s.out
    /\ UNCHANGED <<resources, data_rate_code, data_rate>>

SetDataRateLevel(level) ==
    /\ obj = "ready"
    /\ call' = [name |-> "set_data_rate_level", level |-> level]
    /\ LET d == set_data_rate_level(data_rate_code, data_rate, level)
       IN  /\ data_rate_code' = d.code
           /\ data_rate' = d.rate
           /\ result' = d.out
    /\ UNCHANGED <<resources, sensitivity_range>>

\* set_on()
SetOn ==
    /\ obj = "ready"
    /\ call' = [name |-> "set_on"]
    /\ result' = to_address(ADDR_POWER_CTL, 8, FALSE)
    /\ UNCHANGED <<resources, config>>

\* set_off()
SetOff ==
    /\ obj = "ready"
    /\ call' = [name |-> "set_off"]
    /\ result' = to_address(ADDR_POWER_CTL, 0, FALSE)
    /\ UNCHANGED <<resources, config>>

GetAcceleration(axis, resp) ==
    /\ obj = "ready"
    /\ call' = [name |-> "get_acceleration", axis |-> axis, resp |-> resp]
    /\ result' = get_acceleration(axis, sensitivity_range, resp)
    /\ UNCHANGED <<resources, config>>

\* calibrate(margin); resp: what the device would answer to the read of its
\* data registers during the call
Calibrate(margin, resp) ==
    /\ obj = "ready"
    /\ call' = [name |-> "calibrate", margin |-> margin, resp |-> resp]
    /\ result' = calibrate(margin, sensitivity_range, resp)
    /\ UNCHANGED <<resources, config>>

\* a caller's own from_address(addr, byte_count)
FromAddress(addr, byte_count, resp) ==
    /\ obj = "ready"
    /\ call' = [name |-> "from_address", addr |-> addr,
                byte_count |-> byte_count, resp |-> resp]
    /\ result' = from_address(addr, byte_count, resp)
    /\ UNCHANGED <<resources, config>>

\* a caller's own to_address(addr, values)
ToAddress(addr, values, is_list) ==
    /\ obj = "ready"
    /\ call' = [name |-> "to_address", addr |-> addr, values |-> values,
                is_list |-> is_list]
    /\ result' = to_address(addr, values, is_list)
    /\ UNCHANGED <<resources, config>>

\* the driver in use: construction, bus transactions, sampling, calibration
Next ==
    \/ \E resp \in FewFormatResponses : Construct(resp)
    \/ Stop
    \/ \E v \in FewRanges, resp \in FormatResponses({0}) :
           SetSensitivityRange(v, resp)
    \/ SetOn
    \/ SetOff
    \/ \E axis \in AxisMasks, resp \in AccelResponses : GetAcceleration(axis, resp)
    \/ \E margin \in Margins, resp \in AccelResponses : Calibrate(margin, resp)
    \/ \E addr \in AddrInputs, n \in 1..MaxCount :
           \E resp \in Responses(n) : FromAddress(addr, n, resp)
    \/ \E addr \in AddrInputs, l \in 1..MaxCount : ToAddress(addr, Ramp(0, l), TRUE)
    \/ \E addr \in AddrInputs : ToAddress(addr, 7, FALSE)

Spec == Init /\ [][Next]_vars

\* the two configuration setters, over every level and a few DATA_FORMAT bytes
NextConfig ==
    \/ \E resp \in FewFormatResponses : Construct(resp)
    \/ Stop
    \/ \E v \in RangeInputs, resp \in FewFormatResponses :
           SetSensitivityRange(v, resp)
    \/ \E level \in LevelInputs : SetDataRateLevel(level)

SpecConfig == Init /\ [][NextConfig]_vars

\* a few answers to the read of the data registers: two samples, one short answer
FewAccelResponses ==
    {GoodResp(<<5, 0, 253, 255, 253, 0>>), GoodResp(<<253, 0, 5, 0, 253, 255>>),
     [count |-> 5, data |-> Ramp(0, 5)]}

\* every operation of the driver that takes no address from its caller
NextDriver ==
    \/ \E resp \in FewFormatResponses : Construct(resp)
    \/ Stop
    \/ \E v \in FewRanges, resp \in FewFormatResponses :
           SetSensitivityRange(v, resp)
    \/ \E level \in LevelInputs : SetDataRateLevel(level)
    \/ SetOn
    \/ SetOff
    \/ \E axis \in {0, 5, 7}, resp \in FewAccelResponses :
           GetAcceleration(axis, resp)

SpecDriver == Init /\ [][NextDriver]_vars

\* a constructed device and a call about to be made
Pending(sr, calls) ==
    /\ obj = "ready"
    /\ pi_connections = 1
    /\ open_handles = 1
    /\ sensitivity_range \in sr
    /\ data_rate_code = 15
    /\ data_rate = 3200
    /\ call \in calls
    /\ result = Outcome("pending", "", <<>>, <<>>)

\* set_sensitivity_range over every DATA_FORMAT byte and every range code held
InitRange ==
    Pending(0..3, {[name |-> "set_sensitivity_range", v |-> v, resp |-> resp] :
                      v \in RangeInputs, resp \in AllFormatResponses})

RunSetSensitivityRange ==
    /\ obj = "ready"
    /\ call.name = "set_sensitivity_range"
    /\ result.status = "pending"
    /\ LET s == set_sensitivity_range(sensitivity_range, call.v, call.resp)
       IN  /\ sensitivity_range' = s.sr
           /\ result' = s.out
    /\ UNCHANGED <<resources, data_rate_code, data_rate, call>>

SpecRange == InitRange /\ [][RunSetSensitivityRange]_vars

\* decode over every pair of bytes and every range code: a constructed device
\* and a call of decode(lsb, msb) about to be made
InitDecode ==
    Pending(0..3, {[name |-> "decode", lsb |-> l, msb |-> m] :
                      l \in AllBytes, m \in AllBytes})

RunDecode ==
    /\ obj = "ready"
    /\ call.name = "decode"
    /\ result.status = "pending"
    /\ result' = Outcome("ok", "",
                         <<decode(call.lsb, call.msb, sensitivity_range)>>, <<>>)
    /\ UNCHANGED <<resources, config, call>>

SpecDecode == InitDecode /\ [][RunDecode]_vars

-----------------------------------------------------------------------------
(* Properties *)

\* the transport answered a read of n bytes with n + 1 bytes, the count agreeing
GoodAnswer(resp, n) == resp.count = n + 1 /\ Len(resp.data) = resp.count

\* bit k of the non-negative integer h
Bit(h, k) == (h \div 2^k) % 2

\* C1: a read of n bytes fails with the protocol error (the ValueError of
\* from_address) whenever the transport reports a count other than n + 1 or a
\* payload whose length is not that count; otherwise it returns the n bytes
\* after the first response byte; it makes exactly one transfer either way.
C1_ReadValidated ==
    call.name = "from_address" =>
        LET n == call.byte_count
            resp == call.resp
        IN  /\ Len(result.xfers) = 1
            /\ (resp.count # n + 1 \/ Len(resp.data) # resp.count)
                   => /\ result.status = "ValueError"
                      /\ result.by = "from_address"
                      /\ result.value = <<>>
            /\ (resp.count = n + 1 /\ Len(resp.data) = resp.count)
                   => /\ result.status = "ok"
                      /\ Len(result.value) = n
                      /\ \A i \in 1..n : result.value[i] = resp.data[i + 1]

\* a read of 3 bytes answered with 5 bytes has raised
C1_Witness ==
    /\ call.name = "from_address"
    /\ call.byte_count = 3
    /\ call.resp.count = 5
    /\ Len(call.resp.data) = 5
    /\ result.status = "ValueError"

\* C2: in every frame handed to the transport the header byte has bits 5-0
\* equal to the address masked to 6 bits, bit 7 set exactly for a read and
\* bit 6 set exactly when the byte count exceeds 1.
C2_HeaderLayout ==
    \A i \in 1..Len(result.xfers) :
        LET x == result.xfers[i]
            h == x.msg[1]
        IN  /\ h % 64 = x.addr % 64
            /\ (Bit(h, 7) = 1) <=> (x.kind = "read")
            /\ (Bit(h, 6) = 1) <=> (x.n > 1)

\* the three axis values the device reports in the answer resp, range code sr
Reported(resp, sr) ==
    <<decode(resp.data[2], resp.data[3], sr),
      decode(resp.data[4], resp.data[5], sr),
      decode(resp.data[6], resp.data[7], sr)>>

\* v (in 2^-13 g) lies within margin (in thousandths of a g) of 0, of +1 or -1
WithinOfZero(v, margin) == Fabs(v) * 1000 < margin * 8192
WithinOfOne(v, margin) == Fabs(Fabs(v) * 1000 - 8192 * 1000) < margin * 8192

\* the nearest integer to v / 2^13 is +1 or -1 (no tie arises at +-0.5 or
\* +-1.5 within the margins used)
RoundsToOne(v) == 4096 < Fabs(v) /\ Fabs(v) < 12288

\* the write of one byte to an offset register
IsOffsetWrite(x, addr) ==
    x.kind = "write" /\ x.addr = addr /\ x.n = 1 /\ Len(x.msg) = 2

\* C3: calibrate(margin), the device reporting one axis within margin of +-1
\* and the two others within margin of 0, succeeds and ends with one write to
\* each of the X, Y and Z offset registers (the corrections round(v) - v).
C3_CalibrateSucceeds ==
    (/\ call.name = "calibrate"
     /\ GoodAnswer(call.resp, 6)
     /\ LET r == Reported(call.resp, sensitivity_range)
        IN  \E a \in 1..3 :
                /\ WithinOfOne(r[a], call.margin)
                /\ \A o \in (1..3) \ {a} : WithinOfZero(r[o], call.margin))
    => /\ result.status = "ok"
       /\ Len(result.xfers) >= 3
       /\ LET k == Len(result.xfers)
          IN  /\ IsOffsetWrite(result.xfers[k - 2], ADDR_OFFSET_X)
              /\ IsOffsetWrite(result.xfers[k - 1], ADDR_OFFSET_Y)
              /\ IsOffsetWrite(result.xfers[k], ADDR_OFFSET_Z)

\* C4: calibrate, every reading passing the margin test and the number of
\* axes rounding to +-1 being 0, 2 or 3, raises the calibration error (the
\* ValueError of calibrate) and writes no non-zero correction.
C4_CalibrateRejects ==
    (/\ call.name = "calibrate"
     /\ GoodAnswer(call.resp, 6)
     /\ LET r == Reported(call.resp, sensitivity_range)
        IN  /\ \A a \in 1..3 : \/ WithinOfZero(r[a], call.margin)
                               \/ WithinOfOne(r[a], call.margin)
            /\ Cardinality({a \in 1..3 : RoundsToOne(r[a])}) # 1)
    => /\ result.status = "ValueError"
       /\ result.by = "calibrate"
       /\ \A i \in 1..Len(result.xfers) :
              LET x == result.xfers[i]
              IN  (x.kind = "write"
                   /\ x.addr \in {ADDR_OFFSET_X, ADDR_OFFSET_Y, ADDR_OFFSET_Z})
                      => x.msg[2] = 0

\* C5: the bus handle is released on every exit path: a construction that
\* failed, like a device that was stopped, holds no handle.
C5_HandleReleased ==
    obj \in {"none", "failed", "stopped"} => open_handles = 0

\* C6: get_acceleration(mask) returns popcount(mask) values, the decoded
\* values of the selected axes in ascending axis order.
C6_AxisSelection ==
    (call.name = "get_acceleration" /\ result.status = "ok") =>
        LET all == Reported(call.resp, sensitivity_range)
            sel == {a \in 1..3 : Bit(call.axis, a - 1) = 1}
        IN  /\ Len(result.value) = Cardinality(sel)
            /\ \A a \in sel :
                   result.value[Cardinality({b \in sel : b <= a})] = all[a]

\* the mask 0b101 has returned the X and the Z value, two different values
C6_Witness ==
    /\ call.name = "get_acceleration"
    /\ call.axis = 5
    /\ result.status = "ok"
    /\ Len(result.value) = 2
    /\ result.value[1] # result.value[2]
    /\ call.resp.data[4] # call.resp.data[2]
    /\ call.resp.data[4] # call.resp.data[6]

\* the ranges set_sensitivity_range is specified to accept
ValidRange(v) == v.isint /\ v.val \in {2, 4, 8, 16}

\* C7: set_sensitivity_range(v), v outside {2, 4, 8, 16} or no integer, fails
\* with an invalid-argument error (a TypeError or ValueError of its own),
\* performs no bus transaction and leaves the range code, the rest of the
\* configuration and the bus handle as they were.
C7_InvalidRangeRejected ==
    [][(call'.name = "set_sensitivity_range" /\ ~ValidRange(call'.v))
        => /\ result'.status \in {"TypeError", "ValueError"}
           /\ result'.by = "set_sensitivity_range"
           /\ result'.xfers = <<>>
           /\ sensitivity_range' = sensitivity_range
           /\ data_rate_code' = data_rate_code
           /\ data_rate' = data_rate
           /\ UNCHANGED resources]_vars

\* set_sensitivity_range(3) was refused on a device set to range 4, level 5
C7_Witness ==
    /\ call.name = "set_sensitivity_range"
    /\ call.v = Int_(3)
    /\ result.status = "ValueError"
    /\ result.xfers = <<>>
    /\ sensitivity_range = 1
    /\ data_rate_code = 10

\* C8: set_sensitivity_range(r), r in {2, 4, 8, 16}, the device answering the
\* read of DATA_FORMAT with the byte b, makes one 1-byte read of 0x31 and then
\* one single-byte write to 0x31 of b's high nibble with the low nibble
\* 0x08 | code, code = log2(r) - 1, and leaves the range code equal to code.
C8_RangeReadModifyWrite ==
    (/\ call.name = "set_sensitivity_range"
     /\ result.status # "pending"
     /\ ValidRange(call.v)
     /\ GoodAnswer(call.resp, 1))
    => LET b == call.resp.data[2]
           code == CHOOSE c \in 0..3 : 2^(c + 1) = call.v.val
       IN  /\ result.status = "ok"
           /\ result.xfers =
                  <<Xfer("read", 49, 1, <<128 + 49, 255>>),
                    Xfer("write", 49, 1, <<49, (b \div 16) * 16 + 8 + code>>)>>
           /\ sensitivity_range = code

\* range 4 on a DATA_FORMAT byte 0xF7 wrote 0xF9
C8_Witness ==
    /\ call.name = "set_sensitivity_range"
    /\ call.v = Int_(4)
    /\ GoodAnswer(call.resp, 1)
    /\ call.resp.data[2] = 247
    /\ result.status = "ok"
    /\ result.xfers[2].msg = <<49, 249>>
    /\ sensitivity_range = 1

\* C9: decode(low, high) at range code c is s * 2 * 2^(c+1) / 2^13, s the
\* two's complement 16 bit value of (high << 8) | low; at range 16 the bytes
\* (0xFF, 0x7F) give 32767 counts of 2^-8 g and (0x00, 0x80) give -128 g.
\* (Values are in units of 2^-13 g.)
C9_DecodeSigned ==
    (call.name = "decode" /\ result.status = "ok") =>
        LET raw == call.msb * 256 + call.lsb
            s == IF raw >= 32768 THEN raw - 65536 ELSE raw
            c == sensitivity_range
            v == result.value[1]
        IN  /\ v = s * 2 * 2^(c + 1)
            /\ (c = 3 /\ call.lsb = 255 /\ call.msb = 127) => v = 32767 * 32
            /\ (c = 3 /\ call.lsb = 0 /\ call.msb = 128) => v = -128 * 8192

\* decode(0x00, 0x80) at range 16 returned -128 g
C9_Witness ==
    /\ call.name = "decode"
    /\ call.lsb = 0
    /\ call.msb = 128
    /\ sensitivity_range = 3
    /\ result.status = "ok"
    /\ result.value = <<-1048576>>

\* C10: set_data_rate_level(level), level an integer in 0..16, succeeds,
\* stores a code with code + level = 15 and writes it to 0x2C in one
\* single-byte write; for level -1 and level 17 it fails with an
\* invalid-argument error and writes nothing.
C10_RateLevels ==
    call.name = "set_data_rate_level" =>
        /\ (call.level.isint /\ call.level.val \in 0..16)
               => /\ result.status = "ok"
                  /\ data_rate_code + call.level.val = 15
                  /\ data_rate_code \in 0..255
                  /\ result.xfers =
                         <<Xfer("write", 44, 1, <<44, data_rate_code>>)>>
        /\ call.level \in {Int_(-1), Int_(17)}
               => /\ result.status = "ValueError"
                  /\ result.by = "set_data_rate_level"
                  /\ result.xfers = <<>>

\* C11: after any sequence of construction, set_sensitivity_range,
\* set_data_rate_level, set_on, set_off and get_acceleration, every element of
\* every frame handed to the transport, header and payload, is in 0..255.
C11_FramesAreBytes ==
    \A i \in 1..Len(result.xfers) :
        \A j \in 1..Len(result.xfers[i].msg) :
            result.xfers[i].msg[j] \in 0..255

=============================================================================
